---- MODULE Spec2Model ----
(***************************************************************************)
(* A model of wp-to-markdown (lib/index.js with lib/load-plugins.js and    *)
(* the bundled plugins): the command line, plugin discovery, the paginated *)
(* fetch of posts, and the per-post conversion pipeline of exportPosts.    *)
(*                                                                         *)
(* Text is modelled as sequences of atoms: an atom is one character that   *)
(* matters to the code ("," and " " for the option parsers, the           *)
(* characters sanitize-filename removes) or a run of ordinary characters.  *)
(***************************************************************************)
EXTENDS Integers, Sequences, FiniteSets, TLC

VARIABLES
    argv,          \* the command line: each option absent or given with a raw value
    cwdFiles,      \* the .js files readdir lists in the working directory, in order
    source,        \* the WordPress site: how many posts it holds and how it ends pagination
    config,        \* the fields the constructor derives from the options
    pc,            \* the position of exportPosts
    exitCode,      \* "running", then "0" (exportPosts returned) or "1" (process.exit(1))
    stderr,        \* the diagnostics written with console.error, in order
    loadedPlugins, \* this.loadedPlugins
    page,          \* fetchPosts: page
    allPosts,      \* fetchPosts: allPosts (post ids, in the order received)
    requests,      \* the page requests sent and how each was answered, in order
    posts,         \* exportPosts: posts, the list fetchPosts returned
    idx,           \* exportPosts: the position in posts of the post being processed
    converted,     \* exportPosts: converted
    rawHtml,       \* convertPostToMarkdown: rawHtml, the post's content.rendered
    dom,           \* processImages: the parsed fragment, rewritten in place
    imgIdx,        \* processImages: position in its loops
    imageUrlMap,   \* processImages: imageUrlMap, a function from the URLs set so far
    hookIdx,       \* position in the plugin loops
    markdown,      \* convertPostToMarkdown: markdown
    featured,      \* createFrontMatter: featuredMediaUrl
    frontMatter,   \* createFrontMatter: frontMatter, the keys in insertion order
    trace,         \* the steps taken for the current post, in order
    downloads,     \* the downloadImage calls of the current post, in order
    documents,     \* the posts whose document was written, in order
    lastDoc,       \* the document written last: its front matter and its body
    failed,        \* the posts whose pipeline threw, in order
    imagesWritten  \* the number of image files written in the run

vars == <<argv, cwdFiles, source, config, pc, exitCode, stderr, loadedPlugins,
          page, allPosts, requests, posts, idx, converted, rawHtml, dom, imgIdx,
          imageUrlMap, hookIdx, markdown, featured, frontMatter, trace,
          downloads, documents, lastDoc, failed, imagesWritten>>

(***************************************************************************)
(* Bounds of the model.                                                    *)
(***************************************************************************)
MaxPosts == 3      \* the small sites hold 0..MaxPosts posts
MaxLimit == 3      \* the small limits are 1..MaxLimit
MaxNodes == 3      \* a drawn fragment has at most this many nodes

(***************************************************************************)
(* Program constants.                                                      *)
(***************************************************************************)
PageSize == 100    \* Math.min(100, remainingPosts)

Min(a, b) == IF a <= b THEN a ELSE b

Last(s) == s[Len(s)]

Range(s) == {s[i] : i \in 1..Len(s)}

Absent == [given |-> FALSE, raw |-> <<>>]
Given(raw) == [given |-> TRUE, raw |-> raw]

(***************************************************************************)
(* The command line (commander).  A list option is parsed by               *)
(*   value.split(',').map(c => c.trim()).filter(Boolean)                   *)
(* when the option is given; commander hands the default value over as it  *)
(* is written, without passing it through the parser.                      *)
(***************************************************************************)
RECURSIVE Split(_, _)
Split(s, sep) ==
    IF \A i \in 1..Len(s) : s[i] # sep THEN <<s>>
    ELSE LET k == CHOOSE i \in 1..Len(s) : s[i] = sep /\ \A j \in 1..(i-1) : s[j] # sep
         IN  <<SubSeq(s, 1, k-1)>> \o Split(SubSeq(s, k+1, Len(s)), sep)

RECURSIVE TrimLeft(_)
TrimLeft(s) == IF s # <<>> /\ Head(s) = " " THEN TrimLeft(Tail(s)) ELSE s

RECURSIVE TrimRight(_)
TrimRight(s) == IF s # <<>> /\ Last(s) = " " THEN TrimRight(SubSeq(s, 1, Len(s)-1)) ELSE s

Trim(s) == TrimRight(TrimLeft(s))

ParseList(raw) ==
    LET parts == Split(raw, ",")
        trimmed == [i \in 1..Len(parts) |-> Trim(parts[i])]
    IN  SelectSeq(trimmed, LAMBDA p : p # <<>>)

\* A JavaScript value of the kinds the options take: a string or an array of strings.
Str(s) == [t |-> "string", v |-> <<s>>]
Arr(a) == [t |-> "array", v |-> a]

\* .option(flags, description, parser, default): the parsed value, or the default as written
ListOption(opt, default) ==
    IF opt.given THEN Arr(ParseList(opt.raw)) ELSE Str(default)

PreserveTagsDefault == <<"iframe", ",", "script">>

\* `for (const x of value)`: the elements of an array, the characters of a string
Iterate(val) == IF val.t = "array" THEN val.v ELSE [i \in 1..Len(val.v[1]) |-> <<val.v[1][i]>>]

\* `value || []`: an empty string is falsy
OrEmptyArray(val) == IF val.t = "string" /\ val.v[1] = <<>> THEN Arr(<<>>) ELSE val

NoLimit == [inf |-> TRUE, n |-> 0]
LimitOf(n) == [inf |-> FALSE, n |-> n]

\* the constructor: the fields the claims read
Constructor(args) ==
    [ limit        |-> args.limit,                                 \* config.limit ?? Infinity
      plugins      |-> ListOption(args.plugins, <<>>),             \* config.plugins ?? []
      preserveTags |-> ListOption(args.preserveTags, PreserveTagsDefault),
      codeClasses  |-> OrEmptyArray(ListOption(args.codeClasses, <<>>)),
      imagesDir    |-> args.imagesDir ]

(***************************************************************************)
(* Plugin discovery (load-plugins.js).  A file is a .js file of one of the *)
(* two plugin directories: what its default export is, its static name,    *)
(* the static methods it has and the mark by which its hooks can be told   *)
(* apart.                                                                  *)
(***************************************************************************)
PluginFile(kind, name, ops, mark) == [kind |-> kind, name |-> name, ops |-> ops, mark |-> mark]

AllOps == {"processFrontMatter", "processHtml", "processMarkdown"}

YoastPlugin == PluginFile("class", <<"Yoast">>, AllOps, "yoast")
ExampleFixPathsPlugin == PluginFile("class", <<"ExampleFixPaths">>, AllOps, "fixpaths")

\* a plugin written from the README's template: name, processFrontMatter, processPostContent
TemplatePlugin == PluginFile("class", <<"Mine">>, {"processFrontMatter", "processPostContent"}, "mine")

\* plugins of the user's own, in the working directory
UserPlugin(name, mark) == PluginFile("class", <<name>>, AllOps, mark)
NoHtmlPlugin == PluginFile("class", <<"C">>, AllOps \ {"processHtml"}, "c")
NotAClass == PluginFile("object", <<"D">>, AllOps, "d")
BrokenFile == PluginFile("throws", <<"E">>, {}, "e")

LibPlugins == <<ExampleFixPathsPlugin, YoastPlugin>>

MatchesShapeMut(f) == f.kind = "class"

\* the loader's check of a module's default export
MatchesShape(f) ==
    /\ f.kind = "class"
    /\ "processFrontMatter" \in f.ops
    /\ "processHtml" \in f.ops
    /\ "processMarkdown" \in f.ops

\* loadPlugins(): the accepted classes in discovery order, or a failed import
Discovered(cwd) == cwd \o LibPlugins

LoadPluginsThrows(cwd) == \E i \in 1..Len(Discovered(cwd)) : Discovered(cwd)[i].kind = "throws"

LoadPlugins(cwd) == SelectSeq(Discovered(cwd), MatchesShape)

FindPluginMut(all, name) == SelectSeq(all, LAMBDA q : q.name = name)

\* allPlugins.find(p => p.name === pluginName): the first match, as a sequence of 0 or 1
FindPlugin(all, name) ==
    LET hits == {i \in 1..Len(all) : all[i].name = name}
    IN  IF hits = {} THEN <<>> ELSE <<all[CHOOSE i \in hits : \A j \in hits : i <= j]>>

RECURSIVE ResolveReversed(_, _)
ResolveReversed(all, names) ==
    IF names = <<>> THEN <<>>
    ELSE ResolveReversed(all, Tail(names)) \o FindPlugin(all, Head(names))

\* _loadPlugins: the loop over this.plugins
RECURSIVE ResolvePlugins(_, _)
ResolvePlugins(all, names) ==
    IF names = <<>> THEN <<>>
    ELSE FindPlugin(all, Head(names)) \o ResolvePlugins(all, Tail(names))

MissingPluginsMut(all, names) == <<>>

\* the names _loadPlugins finds no plugin for
MissingPlugins(all, names) == SelectSeq(names, LAMBDA n : FindPlugin(all, n) = <<>>)

(***************************************************************************)
(* The WordPress site.  It holds the posts 1..n, newest first; a request   *)
(* for (page, per_page) is answered with that slice of them.  Past the end *)
(* it answers 400 or, as some sites do, an empty list.  A site that does   *)
(* not honour per_page answers in slices of its own size.                  *)
(***************************************************************************)
Interval(a, b) == [i \in 1..(IF b >= a THEN b - a + 1 ELSE 0) |-> a + i - 1]

SourceRespond(src, p, k) ==
    LET size == IF src.honest THEN k ELSE PageSize
        first == (p - 1) * size + 1
    IN  IF first > src.n /\ src.end = "400" THEN [status |-> 400, posts |-> <<>>]
        ELSE [status |-> 200, posts |-> Interval(first, Min(src.n, p * size))]

(***************************************************************************)
(* Post records.  A URL is given as split('/') leaves it: everything       *)
(* before the last '/', and the last segment.                              *)
(***************************************************************************)
Url(base, file) == [base |-> base, file |-> file]
NoUrl == Url(<<>>, <<>>)

\* an element: its tag, its src or href, its class attribute and its text content
Node(tag, url, cls) == [tag |-> tag, url |-> url, cls |-> cls, mark |-> "", text |-> <<"text">>,
                        label |-> "Unknown"]
Img(url) == Node("img", url, <<>>)
Anchor(url) == Node("a", url, <<>>)
Para == Node("p", NoUrl, <<>>)

UrlPic == Url(<<"http://x/up">>, <<"pic", ".png">>)
UrlPicOther == Url(<<"http://y/up">>, <<"pic", ".png">>)
UrlLogo == Url(<<"http://x/up">>, <<"logo", ".png">>)
Urls == {UrlPic, UrlPicOther, UrlLogo}

NoDoc == [frontMatter |-> <<>>, body |-> <<>>]

\* new Map()
EmptyMap == [u \in {} |-> NoUrl]

Post(id, body, media, yoast) == [id |-> id, body |-> body, media |-> media, yoast |-> yoast]

\* the posts of the site whose posts carry images, embedded media and Yoast data
RichPost(id) ==
    CASE id % 3 = 1 -> Post(id, <<Img(UrlPic), Anchor(UrlPic), Img(UrlPic)>>, UrlPic, TRUE)
      [] id % 3 = 2 -> Post(id, <<Img(UrlLogo), Node("iframe", NoUrl, <<>>),
                                  Node("script", NoUrl, <<>>), Node("video", NoUrl, <<>>)>>,
                            NoUrl, FALSE)
      [] OTHER      -> Post(id, <<Img(UrlPic), Img(UrlPicOther), Anchor(UrlLogo)>>, UrlLogo, TRUE)

PlainPost(id) == Post(id, <<Para>>, NoUrl, TRUE)

PostRecord(id) == IF source.rich THEN RichPost(id) ELSE PlainPost(id)

(***************************************************************************)
(* The initial states: the options given, the working directory and the    *)
(* site.  Two families: runs with plugins against a small site with        *)
(* images, and runs without plugins against sites of every size of         *)
(* interest to the pagination.                                             *)
(***************************************************************************)
Args(limit, plugins, preserveTags) ==
    [limit |-> limit, plugins |-> plugins, preserveTags |-> preserveTags,
     codeClasses |-> Absent, imagesDir |-> <<"blog_export/images">>]

\* the same options with --images-dir set to the directory ExampleFixPaths rewrites
WithImagesDir(args, dir) == [args EXCEPT !.imagesDir = dir]

PluginArgs ==
    { Absent,
      Given(<<"A", ",", "B">>), Given(<<"B", ",", " ", "A">>),
      Given(<<"Yoast", ",", "ExampleFixPaths">>), Given(<<"ExampleFixPaths">>),
      Given(<<"A", ",", "A">>), Given(<<"Mine">>), Given(<<"C", ",", "A">>),
      Given(<<"D">>) }

CwdListings ==
    { <<>>,
      <<UserPlugin("A", "a"), UserPlugin("B", "b")>>,
      <<UserPlugin("B", "b"), UserPlugin("A", "a")>>,
      <<UserPlugin("A", "a"), UserPlugin("A", "a2")>>,
      <<TemplatePlugin, NoHtmlPlugin, NotAClass, UserPlugin("A", "a")>>,
      <<UserPlugin("A", "a"), BrokenFile>> }

Site(n, end, honest, rich) == [n |-> n, end |-> end, honest |-> honest, rich |-> rich]

SmallLimits == {NoLimit} \cup {LimitOf(n) : n \in 1..MaxLimit}

BigSizes == {PageSize, 2 * PageSize, 2 * PageSize + MaxPosts}
BigLimits == {NoLimit, LimitOf(PageSize), LimitOf(PageSize + PageSize \div 2), LimitOf(2 * PageSize)}

Fresh ==
    /\ config = Constructor(argv)
    /\ pc = "mkdirBase"
    /\ exitCode = "running"
    /\ stderr = <<>>
    /\ loadedPlugins = <<>>
    /\ page = 1
    /\ allPosts = <<>>
    /\ requests = <<>>
    /\ posts = <<>>
    /\ idx = 0
    /\ converted = 0
    /\ rawHtml = <<>>
    /\ dom = <<>>
    /\ imgIdx = 0
    /\ imageUrlMap = EmptyMap
    /\ hookIdx = 0
    /\ markdown = <<>>
    /\ featured = <<>>
    /\ frontMatter = <<>>
    /\ trace = <<>>
    /\ downloads = <<>>
    /\ documents = <<>>
    /\ lastDoc = NoDoc
    /\ failed = <<>>
    /\ imagesWritten = 0

InitPlugins ==
    /\ argv \in {WithImagesDir(Args(NoLimit, p, Absent), <<"static/images/blogs">>) : p \in PluginArgs}
    /\ cwdFiles \in CwdListings
    /\ source = Site(MaxPosts, "400", TRUE, TRUE)

InitPaging ==
    /\ argv \in {Args(l, Absent, Absent) : l \in SmallLimits \cup BigLimits}
    /\ cwdFiles = <<>>
    /\ source \in {Site(n, e, h, FALSE) : n \in (0..MaxPosts) \cup BigSizes,
                                          e \in {"400", "empty"}, h \in BOOLEAN}

\* runs with --preserve-tags given, against the small site with images
TagArgs == {Given(<<"iframe">>), Given(<<" ", "script", " ", ",", ",", "iframe">>)}

InitTags ==
    /\ argv \in {Args(NoLimit, Absent, t) : t \in TagArgs}
    /\ cwdFiles = <<>>
    /\ source = Site(MaxPosts, "400", TRUE, TRUE)

Init == (InitPlugins \/ InitPaging \/ InitTags) /\ Fresh

(***************************************************************************)
(* The diagnostics: what console.error is given, and the error's message.  *)
(***************************************************************************)
Diag(text, message) == [text |-> text, message |-> message]

(***************************************************************************)
(* exportPosts.  A throw inside its try block is caught by its one catch:  *)
(* "Export failed" and process.exit(1).                                    *)
(***************************************************************************)
ExportFailedMut(log, message) ==
    /\ stderr' = stderr \o log \o <<Diag("Export failed", message)>>
    /\ exitCode' = exitCode
    /\ pc' = "loop"

ExportFailed(log, message) ==
    /\ stderr' = stderr \o log \o <<Diag("Export failed", message)>>
    /\ exitCode' = "1"
    /\ pc' = "exited"

ProcessExit(log) ==
    /\ stderr' = stderr \o log
    /\ exitCode' = "1"
    /\ pc' = "exited"

fetchVars == <<page, allPosts, requests, posts>>
postVars == <<idx, converted, rawHtml, dom, imgIdx, imageUrlMap, hookIdx, markdown, featured,
              frontMatter, trace, downloads, documents, lastDoc, failed, imagesWritten>>
envVars == <<argv, cwdFiles, source, config>>

\* init(): fs.mkdir(this.baseDir), fs.mkdir(this.imagesDir); either may reject
MkdirBase ==
    /\ pc = "mkdirBase"
    /\ \E ok \in BOOLEAN :
         IF ok THEN pc' = "mkdirImages" /\ UNCHANGED <<stderr, exitCode>>
         ELSE ExportFailed(<<>>, "mkdir baseDir")
    /\ UNCHANGED <<envVars, loadedPlugins, fetchVars, postVars>>

MkdirImages ==
    /\ pc = "mkdirImages"
    /\ \E ok \in BOOLEAN :
         IF ok THEN pc' = "loadPlugins" /\ UNCHANGED <<stderr, exitCode>>
         ELSE ExportFailed(<<>>, "mkdir imagesDir")
    /\ UNCHANGED <<envVars, loadedPlugins, fetchVars, postVars>>

\* _loadPlugins(), with loadPlugins()
LoadPluginsStep ==
    /\ pc = "loadPlugins"
    /\ IF LoadPluginsThrows(cwdFiles)
       THEN ProcessExit(<<Diag("Error loading plugins", "import")>>) /\ UNCHANGED loadedPlugins
       ELSE LET all == LoadPlugins(cwdFiles)
                names == Iterate(config.plugins)
            IN  /\ loadedPlugins' = loadedPlugins \o ResolvePlugins(all, names)
                /\ IF MissingPlugins(all, names) # <<>>
                   THEN ProcessExit(<<Diag("Plugins not found", MissingPlugins(all, names)),
                                           Diag("Available plugins", [i \in 1..Len(all) |-> all[i].name])>>)
                   ELSE pc' = "fetch" /\ UNCHANGED <<stderr, exitCode>>
    /\ UNCHANGED <<envVars, fetchVars, postVars>>

(***************************************************************************)
(* fetchPosts: one iteration of its loop.                                  *)
(***************************************************************************)
Remaining(limit, held) == IF limit.inf THEN NoLimit ELSE LimitOf(limit.n - held)

NonPositive(r) == ~r.inf /\ r.n <= 0

\* Math.min(100, remainingPosts)
PerPage(r) == IF r.inf THEN PageSize ELSE Min(PageSize, r.n)

ReachedLimit(limit, held) == ~limit.inf /\ held >= limit.n

SliceToLimitMut(limit, list) == list

\* allPosts.slice(0, this.limit)
SliceToLimit(limit, list) == SubSeq(list, 1, Min(limit.n, Len(list)))

EndsPaginationMut(status) == FALSE

\* if (response.status === 400) break
EndsPagination(status) == status = 400

FetchReturn(list) ==
    /\ posts' = list
    /\ pc' = "loop"
    /\ UNCHANGED <<stderr, exitCode>>

\* what the site or the network answers: a status (0: fetch rejects) and the posts
Faults == {404, 500, 0}

\* a request for a page: page and per_page of its URL, the posts held when it was sent,
\* and the status it was answered with
Request(p, k, held, status) == [page |-> p, perPage |-> k, held |-> held, status |-> status]

FetchPage ==
    /\ pc = "fetch"
    /\ LET r == Remaining(config.limit, Len(allPosts))
           k == PerPage(r)
       IN  IF NonPositive(r)
           THEN FetchReturn(allPosts) /\ UNCHANGED <<page, allPosts, requests>>
           ELSE \E resp \in {SourceRespond(source, page, k)}
                             \cup {[status |-> f, posts |-> <<>>] : f \in Faults} :
                     LET got == allPosts \o resp.posts
                     IN  /\ requests' = Append(requests, Request(page, k, Len(allPosts), resp.status))
                         /\ CASE resp.status = 404 ->
                                /\ ProcessExit(<<Diag("WordPress REST API v2 not found", "404")>>)
                                /\ UNCHANGED <<page, allPosts, posts>>
                           [] resp.status # 404 /\ EndsPagination(resp.status) ->
                                FetchReturn(allPosts) /\ UNCHANGED <<page, allPosts>>
                           [] resp.status \notin {404, 200} /\ ~EndsPagination(resp.status) ->
                                /\ ExportFailed(<<Diag("Failed to fetch", "HTTP error")>>, "HTTP error")
                                /\ UNCHANGED <<page, allPosts, posts>>
                           [] OTHER ->
                                IF resp.posts = <<>>
                                THEN FetchReturn(allPosts) /\ UNCHANGED <<page, allPosts>>
                                ELSE IF ReachedLimit(config.limit, Len(got))
                                THEN /\ allPosts' = SliceToLimit(config.limit, got)
                                     /\ FetchReturn(allPosts')
                                     /\ UNCHANGED page
                                ELSE /\ allPosts' = got
                                     /\ page' = page + 1
                                     /\ UNCHANGED <<posts, pc, stderr, exitCode>>
    /\ UNCHANGED <<envVars, loadedPlugins, postVars>>

(***************************************************************************)
(* downloadImage(imageUrl, postSlug): the local path, or null (here the    *)
(* empty sequence) when the fetch rejects, the response is not OK or the   *)
(* write fails.  sanitize() removes the characters a file name cannot      *)
(* hold.  A URL that ends in '/' names the post's directory itself, and    *)
(* writing to it fails.                                                    *)
(***************************************************************************)
IllegalAtoms == {"/", "?", "<", ">", "\\", ":", "*", "|", "\""}

Sanitize(name) == SelectSeq(name, LAMBDA a : a \notin IllegalAtoms)

Slug(id) == <<ToString(id)>>

LocalPath(imagesDir, slug, url) == Url(imagesDir \o Sanitize(slug), Sanitize(url.file))

DownloadOutcomes == {"ok", "fetchRejects", "notOk", "writeFails"}

\* a call of downloadImage: for the body or the featured media, what the network and the
\* disk did, and what it returned
Call(for, url, outcome, result) == [for |-> for, url |-> url, outcome |-> outcome, result |-> result]

DownloadImageMut(imagesDir, url, slug, outcome) == <<LocalPath(imagesDir, slug, url)>>

DownloadImage(imagesDir, url, slug, outcome) ==
    IF outcome = "ok" /\ Sanitize(url.file) # <<>>
    THEN <<LocalPath(imagesDir, slug, url)>>
    ELSE <<>>

(***************************************************************************)
(* processImages(content, postSlug).  imageUrlMap is a Map: a function     *)
(* from the URLs set so far.                                               *)
(***************************************************************************)
\* a step of the pipeline of the current post, and the plugin (its mark) whose hook it is
Ev(step, by) == [step |-> step, by |-> by]

MapHas(m, u) == u \in DOMAIN m
MapSet(m, u, path) == [x \in DOMAIN m \cup {u} |-> IF x = u THEN path ELSE m[x]]

\* dom.window.document.getElementsByTagName(tag): the positions of the elements
ElementsByTagName(d, tag) == SelectSeq([i \in 1..Len(d) |-> i], LAMBDA i : d[i].tag = tag)

SetRef(d, i, path) == [d EXCEPT ![i].url = path]

\* the second pass: every <a> whose href is a key of the map gets the mapped path
UpdateLinksOf(d, m) ==
    [i \in 1..Len(d) |->
        IF d[i].tag = "a" /\ d[i].url # NoUrl /\ MapHas(m, d[i].url)
        THEN [d[i] EXCEPT !.url = m[d[i].url]]
        ELSE d[i]]

CurrentPost == PostRecord(posts[idx])

StepAfterMut(step) ==
    CASE step = "images" -> "links"
      [] step = "links" -> "turndown"
      [] step = "turndown" -> "htmlHooks"
      [] step = "htmlHooks" -> "mdHooks"
      [] step = "mdHooks" -> "featured"
      [] step = "featured" -> "fmHooks"
      [] step = "fmHooks" -> "write"
      [] OTHER -> "loop"

\* the order of the statements of convertPostToMarkdown, and back to the loop of exportPosts
StepAfter(step) ==
    CASE step = "images" -> "links"
      [] step = "links" -> "htmlHooks"
      [] step = "htmlHooks" -> "turndown"
      [] step = "turndown" -> "mdHooks"
      [] step = "mdHooks" -> "featured"
      [] step = "featured" -> "fmHooks"
      [] step = "fmHooks" -> "write"
      [] OTHER -> "loop"

PostFailedMut(message) ==
    /\ failed' = Append(failed, posts[idx])
    /\ stderr' = Append(stderr, Diag("Export failed", message))
    /\ exitCode' = exitCode
    /\ pc' = "loop"

\* a throw in the loop of exportPosts reaches its catch: the run ends
PostFailed(message) ==
    /\ failed' = Append(failed, posts[idx])
    /\ ExportFailed(<<>>, message)

\* for (const post of posts): the next post's convertPostToMarkdown begins, or the loop ends
NextPost ==
    /\ pc = "loop"
    /\ IF idx >= Len(posts)
       THEN /\ pc' = "done"
            /\ exitCode' = "0"
            /\ UNCHANGED <<idx, rawHtml, dom, imgIdx, imageUrlMap, trace, downloads>>
       ELSE /\ idx' = idx + 1
            /\ rawHtml' = PostRecord(posts[idx']).body
            /\ dom' = rawHtml'
            /\ imgIdx' = 1
            /\ imageUrlMap' = EmptyMap
            /\ trace' = <<>>
            /\ downloads' = <<>>
            /\ pc' = "images"
            /\ UNCHANGED exitCode
    /\ UNCHANGED <<envVars, stderr, loadedPlugins, fetchVars, converted, hookIdx, markdown,
                   featured, frontMatter, documents, lastDoc, failed, imagesWritten>>

\* the first pass: one <img>, with its download
ImageStep ==
    /\ pc = "images"
    /\ LET images == ElementsByTagName(dom, "img")
       IN  IF imgIdx > Len(images)
           THEN /\ pc' = StepAfter(pc)
                /\ UNCHANGED <<dom, imgIdx, imageUrlMap, trace, downloads, imagesWritten>>
           ELSE LET i == images[imgIdx]
                    imageUrl == dom[i].url
                IN  /\ imgIdx' = imgIdx + 1
                    /\ pc' = pc
                    /\ IF imageUrl = NoUrl
                       THEN UNCHANGED <<dom, imageUrlMap, trace, downloads, imagesWritten>>
                       ELSE \E outcome \in DownloadOutcomes :
                              LET newPath == DownloadImage(config.imagesDir, imageUrl,
                                                           Slug(posts[idx]), outcome)
                              IN  /\ downloads' = Append(downloads, Call("body", imageUrl, outcome, newPath))
                                  /\ trace' = Append(trace, Ev("download", ""))
                                  /\ IF newPath # <<>>
                                     THEN /\ dom' = SetRef(dom, i, newPath[1])
                                          /\ imageUrlMap' = MapSet(imageUrlMap, imageUrl, newPath[1])
                                          /\ imagesWritten' = imagesWritten + 1
                                     ELSE UNCHANGED <<dom, imageUrlMap, imagesWritten>>
    /\ UNCHANGED <<envVars, exitCode, stderr, loadedPlugins, fetchVars, idx, converted,
                   rawHtml, hookIdx, markdown, featured, frontMatter, documents, lastDoc, failed>>

\* the second pass, and the return of { imageUrlMap, content }
UpdateLinks ==
    /\ pc = "links"
    /\ dom' = UpdateLinksOf(dom, imageUrlMap)
    /\ trace' = Append(trace, Ev("links", ""))
    /\ hookIdx' = 1
    /\ pc' = StepAfter(pc)
    /\ UNCHANGED <<envVars, exitCode, stderr, loadedPlugins, fetchVars, idx, converted,
                   rawHtml, imgIdx, imageUrlMap, markdown, featured, frontMatter, downloads,
                   documents, lastDoc, failed, imagesWritten>>

(***************************************************************************)
(* The plugins' hooks.  Yoast and ExampleFixPaths are the bundled ones; a  *)
(* plugin of the user's own marks what it is handed, so that the order of  *)
(* the hooks shows in the result: its processHtml appends an element, its  *)
(* processMarkdown a line, its processFrontMatter sets processed_by.       *)
(***************************************************************************)
Token(kind, tag, url, mark) ==
    [kind |-> kind, tag |-> tag, url |-> url, mark |-> mark, lang |-> <<>>, text |-> <<>>]

Val(ref) == [null |-> FALSE, ref |-> ref]
Text(s) == Val(Url(<<>>, <<s>>))
Null == [null |-> TRUE, ref |-> NoUrl]
Entry(key, val) == [key |-> key, val |-> val]

HasKey(fm, key) == \E i \in 1..Len(fm) : fm[i].key = key
Get(fm, key) == fm[CHOOSE i \in 1..Len(fm) : fm[i].key = key].val

\* { ...fm, key: val }: an existing key keeps its place, a new one comes last
SetKey(fm, key, val) ==
    IF HasKey(fm, key)
    THEN [i \in 1..Len(fm) |-> IF fm[i].key = key THEN Entry(key, val) ELSE fm[i]]
    ELSE Append(fm, Entry(key, val))

\* content.replace(/static\/images\/blogs\//g, '/images/blogs/')
ReplaceUrl(ref) ==
    [ref EXCEPT !.base = [i \in 1..Len(ref.base) |->
        IF ref.base[i] = "static/images/blogs" THEN "/images/blogs" ELSE ref.base[i]]]

Bundled == {"yoast", "fixpaths"}

ProcessHtml(plugin, html, map) ==
    IF plugin.mark \in Bundled THEN html
    ELSE Append(html, [Para EXCEPT !.mark = plugin.mark])

ProcessMarkdown(plugin, md) ==
    CASE plugin.mark = "yoast" -> md
      [] plugin.mark = "fixpaths" -> [i \in 1..Len(md) |-> [md[i] EXCEPT !.url = ReplaceUrl(@)]]
      [] OTHER -> Append(md, Token("text", "", NoUrl, plugin.mark))

\* Yoast reads postContent.yoast_head_json.description
FrontMatterHookThrows(plugin, post) == plugin.mark = "yoast" /\ ~post.yoast

ProcessFrontMatter(plugin, fm, post) ==
    CASE plugin.mark = "yoast" -> SetKey(fm, "excerpt", Text("yoast description"))
      [] plugin.mark = "fixpaths" ->
            SetKey(fm, "featured_image",
                   IF HasKey(fm, "featured_image") /\ ~Get(fm, "featured_image").null
                   THEN Val(ReplaceUrl(Get(fm, "featured_image").ref))
                   ELSE Null)
      [] OTHER -> SetKey(fm, "processed_by", Text(plugin.mark))

(***************************************************************************)
(* turndown.  this.turndown.keep(this.preserveTags): a string filter       *)
(* matches the element of that very name, an array one of its names.  The  *)
(* rules for images, links and paragraphs come before the keep rules.      *)
(***************************************************************************)
Keeps(filter, tag) ==
    IF filter.t = "string" THEN filter.v[1] = <<tag>> ELSE <<tag>> \in Range(filter.v)

(***************************************************************************)
(* The codeBlocks rule.  Its filter:                                       *)
(*   codeClasses.some(className => node.className.indexOf(className) !== -1)*)
(* Its replacement normalizes node.textContent, asks lang-detector for the *)
(* language, falls back to the JSON probe, and emits a fenced block.       *)
(***************************************************************************)
\* haystack.indexOf(needle): the first position (from 0) the needle stands at, or -1
IndexOf(hay, needle) ==
    LET at == {k \in 0..(Len(hay) - Len(needle)) : SubSeq(hay, k + 1, k + Len(needle)) = needle}
    IN  IF at = {} THEN -1 ELSE CHOOSE k \in at : \A j \in at : k <= j

CodeBlocksFilterMut(codeClasses, node) == node.tag = "pre"

CodeBlocksFilter(codeClasses, node) ==
    \E i \in 1..Len(codeClasses.v) : IndexOf(node.cls, codeClasses.v[i]) # -1

Whitespace == {" ", "\n", "\r", "\t"}

\* .replace(/\\n/g, '\n'): a literal backslash-n becomes a line break
ReplaceLiteralNewlines(text) == [i \in 1..Len(text) |-> IF text[i] = "\\n" THEN "\n" ELSE text[i]]

\* .replace(/\r\n/g, '\n'): a carriage return before a line feed goes
ReplaceCrLf(text) ==
    LET keep == SelectSeq([i \in 1..Len(text) |-> i],
                          LAMBDA i : ~(text[i] = "\r" /\ i < Len(text) /\ text[i + 1] = "\n"))
    IN  [k \in 1..Len(keep) |-> text[keep[k]]]

\* .replace(/\r/g, '\n')
ReplaceCr(text) == [i \in 1..Len(text) |-> IF text[i] = "\r" THEN "\n" ELSE text[i]]

RECURSIVE TrimStart(_)
TrimStart(text) == IF text # <<>> /\ Head(text) \in Whitespace THEN TrimStart(Tail(text)) ELSE text

RECURSIVE TrimEnd(_)
TrimEnd(text) ==
    IF text # <<>> /\ Last(text) \in Whitespace THEN TrimEnd(SubSeq(text, 1, Len(text) - 1)) ELSE text

\* const code = node.textContent.replace(...).replace(...).replace(...).trim()
NormalizeCode(text) == TrimEnd(TrimStart(ReplaceCr(ReplaceCrLf(ReplaceLiteralNewlines(text)))))

\* the labels lang-detector answers with
DetectorLabels == {"JavaScript", "C", "C++", "Python", "Java", "HTML", "CSS", "Ruby", "Go", "PHP",
                   "Unknown"}

languageMap ==
    [l \in DetectorLabels |->
        CASE l = "JavaScript" -> <<"javascript">>
          [] l = "C" -> <<"c">>
          [] l = "C++" -> <<"cpp">>
          [] l = "Python" -> <<"python">>
          [] l = "Java" -> <<"java">>
          [] l = "HTML" -> <<"html">>
          [] l = "CSS" -> <<"css">>
          [] l = "Ruby" -> <<"ruby">>
          [] l = "Go" -> <<"go">>
          [] l = "PHP" -> <<"php">>
          [] OTHER -> <<>>]

\* detectLang(code): lang-detector's answer for the node's text, which the node carries
DetectLang(node) == node.label

\* the atoms that are a JSON value on their own
JsonValues == {"{}", "1", "null"}

\* JSON.parse(code) does not throw: one value, with white space around it allowed
isJson(code) ==
    LET solid == SelectSeq(code, LAMBDA a : a \notin Whitespace)
    IN  Len(solid) = 1 /\ solid[1] \in JsonValues

LanguageOfMut(node, code) ==
    IF isJson(code) THEN <<"json">> ELSE languageMap[DetectLang(node)]

\* the language of the fence: language || ''
LanguageOf(node, code) ==
    LET language == languageMap[DetectLang(node)]
    IN  IF language = <<>> /\ isJson(code) THEN <<"json">> ELSE language

CodeBlocksReplacement(node) ==
    LET code == NormalizeCode(node.text)
    IN  [Token("code", node.tag, NoUrl, node.mark) EXCEPT !.lang = LanguageOf(node, code), !.text = code]

\* turndown takes a blank node by its blank rule before any other rule: an element that is
\* not void, means nothing when empty, and has only white space for text
NeverBlank == {"img", "a", "iframe", "script", "video"}

IsBlank(node) == node.tag \notin NeverBlank /\ \A i \in 1..Len(node.text) : node.text[i] \in Whitespace

\* the rules in the order turndown tries them: an added rule comes before the built-in ones
TurndownNode(node, keep, codeClasses) ==
    CASE IsBlank(node) -> Token("blank", node.tag, NoUrl, node.mark)
      [] ~IsBlank(node) /\ CodeBlocksFilter(codeClasses, node) -> CodeBlocksReplacement(node)
      [] ~IsBlank(node) /\ ~CodeBlocksFilter(codeClasses, node) ->
            CASE node.tag = "img" -> Token("image", node.tag, node.url, node.mark)
              [] node.tag = "a" /\ node.url # NoUrl -> Token("link", node.tag, node.url, node.mark)
              [] node.tag = "p" -> Token("text", node.tag, NoUrl, node.mark)
              [] Keeps(keep, node.tag) -> Token("html", node.tag, node.url, node.mark)
              [] OTHER -> Token("text", "", NoUrl, node.mark)

Turndown(html, keep, codeClasses) == [i \in 1..Len(html) |-> TurndownNode(html[i], keep, codeClasses)]

(***************************************************************************)
(* createFrontMatter and extractFeaturedImage.                             *)
(***************************************************************************)
BaseFrontMatter(post, media) ==
    LET fm == << Entry("title", Text("title")), Entry("date", Text("date")),
                 Entry("modified", Text("modified")), Entry("slug", Val(Url(<<>>, Slug(post.id)))),
                 Entry("status", Text("status")), Entry("categories", Text("categories")),
                 Entry("tags", Text("tags")), Entry("author", Text("author")),
                 Entry("excerpt", Text("excerpt")),
                 Entry("original_url", Val(Url(<<"wpUrl">>, Slug(post.id)))) >>
    IN  IF media # <<>> THEN Append(fm, Entry("featured_image", Val(media[1]))) ELSE fm

\* one plugin's processHtml, or the end of that loop
HtmlHook ==
    /\ pc = "htmlHooks"
    /\ IF hookIdx > Len(loadedPlugins)
       THEN pc' = StepAfter(pc) /\ UNCHANGED <<dom, hookIdx, trace>>
       ELSE /\ dom' = ProcessHtml(loadedPlugins[hookIdx], dom, imageUrlMap)
            /\ trace' = Append(trace, Ev("processHtml", loadedPlugins[hookIdx].mark))
            /\ hookIdx' = hookIdx + 1
            /\ pc' = pc
    /\ UNCHANGED <<envVars, exitCode, stderr, loadedPlugins, fetchVars, idx, converted,
                   rawHtml, imgIdx, imageUrlMap, markdown, featured, frontMatter, downloads,
                   documents, lastDoc, failed, imagesWritten>>

\* this.turndown.turndown(processedHtml)
TurndownStep ==
    /\ pc = "turndown"
    /\ markdown' = Turndown(dom, config.preserveTags, config.codeClasses)
    /\ trace' = Append(trace, Ev("turndown", ""))
    /\ hookIdx' = 1
    /\ pc' = StepAfter(pc)
    /\ UNCHANGED <<envVars, exitCode, stderr, loadedPlugins, fetchVars, idx, converted,
                   rawHtml, dom, imgIdx, imageUrlMap, featured, frontMatter, downloads,
                   documents, lastDoc, failed, imagesWritten>>

\* one plugin's processMarkdown, or the end of that loop
MarkdownHook ==
    /\ pc = "mdHooks"
    /\ IF hookIdx > Len(loadedPlugins)
       THEN pc' = StepAfter(pc) /\ UNCHANGED <<markdown, hookIdx, trace>>
       ELSE /\ markdown' = ProcessMarkdown(loadedPlugins[hookIdx], markdown)
            /\ trace' = Append(trace, Ev("processMarkdown", loadedPlugins[hookIdx].mark))
            /\ hookIdx' = hookIdx + 1
            /\ pc' = pc
    /\ UNCHANGED <<envVars, exitCode, stderr, loadedPlugins, fetchVars, idx, converted,
                   rawHtml, dom, imgIdx, imageUrlMap, featured, frontMatter, downloads,
                   documents, lastDoc, failed, imagesWritten>>

InMappingMut(m, sourceUrl) == FALSE

\* extractFeaturedImage: imageUrlMap.has(sourceUrl)
InMapping(m, sourceUrl) == MapHas(m, sourceUrl)

\* createFrontMatter up to its plugin loop: extractFeaturedImage, then the base keys
FeaturedStep ==
    /\ pc = "featured"
    /\ LET sourceUrl == CurrentPost.media
       IN  \/ /\ sourceUrl = NoUrl
              /\ featured' = <<>>
              /\ trace' = Append(trace, Ev("frontMatter", ""))
              /\ UNCHANGED <<downloads, imagesWritten>>
           \/ /\ sourceUrl # NoUrl
              /\ InMapping(imageUrlMap, sourceUrl)
              /\ featured' = <<imageUrlMap[sourceUrl]>>
              /\ trace' = Append(trace, Ev("frontMatter", ""))
              /\ UNCHANGED <<downloads, imagesWritten>>
           \/ /\ sourceUrl # NoUrl
              /\ ~InMapping(imageUrlMap, sourceUrl)
              /\ \E outcome \in DownloadOutcomes :
                   /\ featured' = DownloadImage(config.imagesDir, sourceUrl, Slug(posts[idx]), outcome)
                   /\ downloads' = Append(downloads, Call("featured", sourceUrl, outcome, featured'))
                   /\ imagesWritten' = imagesWritten + (IF featured' # <<>> THEN 1 ELSE 0)
              /\ trace' = trace \o <<Ev("featuredDownload", ""), Ev("frontMatter", "")>>
    /\ frontMatter' = BaseFrontMatter(CurrentPost, featured')
    /\ hookIdx' = 1
    /\ pc' = StepAfter(pc)
    /\ UNCHANGED <<envVars, exitCode, stderr, loadedPlugins, fetchVars, idx, converted,
                   rawHtml, dom, imgIdx, imageUrlMap, markdown, documents, lastDoc, failed>>

\* one plugin's processFrontMatter, or the end of that loop
FrontMatterHook ==
    /\ pc = "fmHooks"
    /\ IF hookIdx > Len(loadedPlugins)
       THEN /\ pc' = StepAfter(pc)
            /\ UNCHANGED <<frontMatter, hookIdx, trace, failed, stderr, exitCode>>
       ELSE /\ trace' = Append(trace, Ev("processFrontMatter", loadedPlugins[hookIdx].mark))
            /\ IF FrontMatterHookThrows(loadedPlugins[hookIdx], CurrentPost)
               THEN PostFailed("TypeError") /\ UNCHANGED <<frontMatter, hookIdx>>
               ELSE /\ frontMatter' = ProcessFrontMatter(loadedPlugins[hookIdx], frontMatter, CurrentPost)
                    /\ hookIdx' = hookIdx + 1
                    /\ pc' = pc
                    /\ UNCHANGED <<failed, stderr, exitCode>>
    /\ UNCHANGED <<envVars, loadedPlugins, fetchVars, idx, converted, rawHtml, dom, imgIdx,
                   imageUrlMap, markdown, featured, downloads, documents, lastDoc,
                   imagesWritten>>

\* return frontMatter + markdown; fs.writeFile(filePath, markdown); converted++
WriteDocument ==
    /\ pc = "write"
    /\ \E ok \in BOOLEAN :
         IF ok
         THEN /\ documents' = Append(documents, posts[idx])
              /\ lastDoc' = [frontMatter |-> frontMatter, body |-> markdown]
              /\ converted' = converted + 1
              /\ trace' = Append(trace, Ev("write", ""))
              /\ pc' = StepAfter(pc)
              /\ UNCHANGED <<failed, stderr, exitCode>>
         ELSE /\ PostFailed("writeFile")
              /\ UNCHANGED <<documents, lastDoc, converted, trace>>
    /\ UNCHANGED <<envVars, loadedPlugins, fetchVars, idx, rawHtml, dom, imgIdx, imageUrlMap,
                   hookIdx, markdown, featured, frontMatter, downloads, imagesWritten>>

Next ==
    \/ MkdirBase
    \/ MkdirImages
    \/ LoadPluginsStep
    \/ FetchPage
    \/ NextPost
    \/ ImageStep
    \/ UpdateLinks
    \/ HtmlHook
    \/ TurndownStep
    \/ MarkdownHook
    \/ FeaturedStep
    \/ FrontMatterHook
    \/ WriteDocument

Spec == Init /\ [][Next]_vars

(***************************************************************************)
(* processImages on any fragment: the run stands at the first pass of a    *)
(* post whose body is drawn from the fragments of up to MaxNodes nodes.    *)
(***************************************************************************)
FragmentUrls == {UrlPic, UrlPicOther}

FragmentNodes ==
    {Img(u) : u \in FragmentUrls \cup {NoUrl}} \cup {Anchor(u) : u \in FragmentUrls} \cup {Para}

Fragments == UNION {[1..k -> FragmentNodes] : k \in 0..MaxNodes}

InitImages ==
    /\ argv = Args(NoLimit, Absent, Absent)
    /\ cwdFiles = <<>>
    /\ source = Site(1, "400", TRUE, FALSE)
    /\ config = Constructor(argv)
    /\ pc = "images"
    /\ exitCode = "running"
    /\ stderr = <<>>
    /\ loadedPlugins = <<>>
    /\ page = 2
    /\ allPosts = <<1>>
    /\ requests = <<Request(1, PageSize, 0, 200), Request(2, PageSize, 1, 400)>>
    /\ posts = <<1>>
    /\ idx = 1
    /\ converted = 0
    /\ rawHtml \in Fragments
    /\ dom = rawHtml
    /\ imgIdx = 1
    /\ imageUrlMap = EmptyMap
    /\ hookIdx = 0
    /\ markdown = <<>>
    /\ featured = <<>>
    /\ frontMatter = <<>>
    /\ trace = <<>>
    /\ downloads = <<>>
    /\ documents = <<>>
    /\ lastDoc = NoDoc
    /\ failed = <<>>
    /\ imagesWritten = 0

NextImages == ImageStep \/ UpdateLinks

SpecImages == InitImages /\ [][NextImages]_vars

(***************************************************************************)
(* The conversion of a code element: the run stands at the turndown step   *)
(* of a post whose processed HTML is one element, with any class           *)
(* attribute, any text and any answer of lang-detector, under any          *)
(* --code-classes.                                                         *)
(***************************************************************************)
CodeNode(tag, cls, text, label) == [Node(tag, NoUrl, cls) EXCEPT !.text = text, !.label = label]

CodeClassArgs ==
    { Absent, Given(<<>>), Given(<<",", " ">>), Given(<<"code">>),
      Given(<<" ", "hljs", " ", ",", "code">>) }

ClassAttributes ==
    { <<>>, <<"code">>, <<"wp-block-", "code">>, <<"dark", " ", "hljs">>, <<"plain">> }

CodeTexts ==
    { <<>>, <<" ", "\n">>, <<"x = 1">>, <<"{}">>, <<" ", "{}", "\r", "\n">>,
      <<"{}", "\\n", "1">>, <<"x = 1", "\r", "y = 2", "\\n">>, <<"null", "\\n">> }

CodeFragments ==
    { <<CodeNode(t, c, x, l)>> : t \in {"pre", "img"}, c \in ClassAttributes, x \in CodeTexts,
                                 l \in DetectorLabels }

InitCode ==
    /\ argv \in {[Args(NoLimit, Absent, Absent) EXCEPT !.codeClasses = c] : c \in CodeClassArgs}
    /\ cwdFiles = <<>>
    /\ source = Site(1, "400", TRUE, FALSE)
    /\ config = Constructor(argv)
    /\ pc = "turndown"
    /\ exitCode = "running"
    /\ stderr = <<>>
    /\ loadedPlugins = <<>>
    /\ page = 2
    /\ allPosts = <<1>>
    /\ requests = <<Request(1, PageSize, 0, 200), Request(2, PageSize, 1, 400)>>
    /\ posts = <<1>>
    /\ idx = 1
    /\ converted = 0
    /\ rawHtml \in CodeFragments
    /\ dom = rawHtml
    /\ imgIdx = 1
    /\ imageUrlMap = EmptyMap
    /\ hookIdx = 1
    /\ markdown = <<>>
    /\ featured = <<>>
    /\ frontMatter = <<>>
    /\ trace = <<Ev("links", "")>>
    /\ downloads = <<>>
    /\ documents = <<>>
    /\ lastDoc = NoDoc
    /\ failed = <<>>
    /\ imagesWritten = 0

NextCode == TurndownStep

SpecCode == InitCode /\ [][NextCode]_vars

(***************************************************************************)
(* What the claims speak of.                                               *)
(***************************************************************************)
Ended == pc \in {"done", "exited"}

InInit == pc \in {"mkdirBase", "mkdirImages", "loadPlugins"}

InPost == pc \in {"images", "links", "htmlHooks", "turndown", "mdHooks", "featured", "fmHooks", "write"}

Steps(name) == SelectSeq(trace, LAMBDA e : e.step = name)

BodyCalls == SelectSeq(downloads, LAMBDA c : c.for = "body")

\* the <img> elements of the raw fragment that have a src, by position
ImagesWithSrc == SelectSeq(ElementsByTagName(rawHtml, "img"), LAMBDA i : rawHtml[i].url # NoUrl)

ProcessImagesReturned == InPost /\ pc \notin {"images", "links"}

Rank(step) ==
    CASE step \in {"download", "links"} -> 1
      [] step = "processHtml" -> 2
      [] step = "turndown" -> 3
      [] step = "processMarkdown" -> 4
      [] step \in {"featuredDownload", "frontMatter"} -> 5
      [] step = "processFrontMatter" -> 6
      [] OTHER -> 7

C2_StepOrder ==
    /\ \A i, j \in 1..Len(trace) : i < j => Rank(trace[i].step) <= Rank(trace[j].step)
    /\ (\E i \in 1..Len(trace) : Rank(trace[i].step) > 1) =>
            /\ Len(BodyCalls) = Len(ImagesWithSrc)
            /\ Len(Steps("links")) = 1
    /\ DOMAIN imageUrlMap = {c.url : c \in {d \in Range(BodyCalls) : d.result # <<>>}}
    /\ (pc = "loop" /\ idx > 0) =>
            /\ Len(Steps("turndown")) = 1
            /\ Len(Steps("frontMatter")) = 1
            /\ Len(Steps("write")) = 1
            /\ \A h \in {"processHtml", "processMarkdown", "processFrontMatter"} :
                    Len(Steps(h)) = Len(loadedPlugins)

C2_Witness ==
    /\ pc = "loop"
    /\ Len(loadedPlugins) = 2
    /\ Len(Steps("featuredDownload")) = 1
    /\ \E c \in Range(BodyCalls) : c.result = <<>>
    /\ \E c \in Range(BodyCalls) : c.result # <<>>

(***************************************************************************)
(* C3.  The plugin hooks are folded left to right in the order of the      *)
(* configured names: loadedPlugins carries the configured names in their   *)
(* order whatever the order of discovery; the elements the plugins'        *)
(* processHtml added stand in that order; the Markdown handed to the       *)
(* front matter step is the left fold of processMarkdown over the          *)
(* converted body, and the front matter handed to the write is the left    *)
(* fold of processFrontMatter over the assembled keys.                     *)
(***************************************************************************)
RECURSIVE FoldMarkdown(_, _)
FoldMarkdown(plugins, md) ==
    IF plugins = <<>> THEN md
    ELSE FoldMarkdown(Tail(plugins), ProcessMarkdown(Head(plugins), md))

RECURSIVE FoldFrontMatter(_, _, _)
FoldFrontMatter(plugins, fm, post) ==
    IF plugins = <<>> THEN fm
    ELSE FoldFrontMatter(Tail(plugins), ProcessFrontMatter(Head(plugins), fm, post), post)

Reverse(seq) == [i \in 1..Len(seq) |-> seq[Len(seq) + 1 - i]]

NamesOf(plugins) == [i \in 1..Len(plugins) |-> plugins[i].name]

MarksOf(seq) == [i \in 1..Len(seq) |-> seq[i].mark]

C3_HooksFoldInConfiguredOrder ==
    /\ (~InInit /\ ~(pc = "exited" /\ requests = <<>>)) =>
            NamesOf(loadedPlugins) = Iterate(config.plugins)
    /\ pc = "turndown" =>
            MarksOf(SelectSeq(dom, LAMBDA n : n.mark # ""))
                = MarksOf(SelectSeq(loadedPlugins, LAMBDA q : q.mark \notin Bundled))
    /\ pc = "featured" =>
            markdown = FoldMarkdown(loadedPlugins, Turndown(dom, config.preserveTags, config.codeClasses))
    /\ pc = "write" =>
            frontMatter = FoldFrontMatter(loadedPlugins, BaseFrontMatter(CurrentPost, featured),
                                          CurrentPost)

C3_Witness ==
    /\ pc = "featured"
    /\ NamesOf(loadedPlugins) = << <<"A">>, <<"B">> >>
    /\ cwdFiles[1].name = <<"B">>
    /\ markdown # FoldMarkdown(Reverse(loadedPlugins), Turndown(dom, config.preserveTags, config.codeClasses))

(***************************************************************************)
(* C4.  A failed download never aborts the post.  Each call of             *)
(* downloadImage for the body is for the next <img> in document order; a   *)
(* call whose fetch rejects, whose response is not OK or whose write       *)
(* fails returns null and leaves that <img> with its original URL; a URL   *)
(* none of whose downloads succeeded has no entry in the mapping; and      *)
(* processImages returns, with no error raised, after a call for every     *)
(* <img> that has a src.                                                   *)
(***************************************************************************)
C4_ImageFailureIsContained ==
    InPost =>
        /\ \A k \in 1..Len(BodyCalls) :
              LET i == ImagesWithSrc[k]
                  c == BodyCalls[k]
              IN  /\ c.url = rawHtml[i].url
                  /\ c.outcome # "ok" => (c.result = <<>> /\ dom[i].url = rawHtml[i].url)
        /\ \A u \in DOMAIN imageUrlMap : \E c \in Range(BodyCalls) : c.url = u /\ c.outcome = "ok"
        /\ ProcessImagesReturned =>
              /\ Len(BodyCalls) = Len(ImagesWithSrc)
              /\ failed = <<>>
              /\ exitCode = "running"

C4_Witness ==
    /\ ProcessImagesReturned
    /\ \E k, l \in 1..Len(BodyCalls) :
          /\ k < l
          /\ BodyCalls[k].outcome # "ok"
          /\ BodyCalls[l].outcome = "ok"
          /\ BodyCalls[k].url # BodyCalls[l].url
          /\ DOMAIN imageUrlMap = {BodyCalls[l].url}

(***************************************************************************)
(* C5.  Claimed: when processImages has returned, every <img> and every    *)
(* <a> whose URL is a key of the asset mapping carries the mapped path,    *)
(* for any fragment and any pattern of download successes and failures.    *)
(***************************************************************************)
C5_EveryOccurrenceRewritten ==
    (pc = "htmlHooks" /\ hookIdx = 1) =>
        \A i \in 1..Len(rawHtml) :
            (rawHtml[i].tag \in {"img", "a"} /\ rawHtml[i].url \in DOMAIN imageUrlMap)
                => dom[i].url = imageUrlMap[rawHtml[i].url]

\* fetchPosts has returned its list to exportPosts
FetchReturned == pc = "loop" \/ InPost \/ pc = "done" \/ (pc = "exited" /\ idx > 0)

Texts(log) == {log[i].text : i \in 1..Len(log)}

(***************************************************************************)
(* C6.  A 400 response ends pagination without error and keeps every post  *)
(* of the earlier pages: whenever the last request was answered 400,       *)
(* fetchPosts has returned exactly the posts held when that request was    *)
(* sent and no fetch failure was reported.  With no limit, a site that     *)
(* answers in full pages and 400 past the end has all its posts returned   *)
(* (200 posts after two pages of 100 and a 400 on page 3), and a run that  *)
(* completes has written a document for each and reports success.         *)
(***************************************************************************)
C6_BadRequestEndsPagination ==
    /\ (requests # <<>> /\ Last(requests).status = 400) =>
            /\ FetchReturned
            /\ posts = allPosts
            /\ Len(posts) = Last(requests).held
            /\ "Failed to fetch" \notin Texts(stderr)
    /\ (config.limit.inf /\ source.honest /\ source.end = "400" /\ FetchReturned) =>
            /\ posts = Interval(1, source.n)
            /\ Last(requests).status = 400
            /\ Last(requests).page = (source.n + PageSize - 1) \div PageSize + 1
    /\ (config.limit.inf /\ source.honest /\ source.end = "400" /\ pc = "done") =>
            /\ documents = Interval(1, source.n)
            /\ converted = source.n
            /\ exitCode = "0"
            /\ stderr = <<>>

C6_Witness ==
    /\ pc = "done"
    /\ config.limit.inf
    /\ Len(requests) = 3
    /\ requests[1].status = 200 /\ requests[2].status = 200 /\ requests[3].status = 400
    /\ requests[2].held = PageSize
    /\ requests[3].held = 2 * PageSize
    /\ Len(documents) = 2 * PageSize

(***************************************************************************)
(* C7.  With a limit L, whatever the site answers: no request asks for     *)
(* more than min(100, L - posts held) posts per page, fetchPosts returns   *)
(* at most L posts, and at most L documents are written.                   *)
(***************************************************************************)
C7_LimitIsNeverExceeded ==
    ~config.limit.inf =>
        /\ \A i \in 1..Len(requests) :
              /\ requests[i].perPage <= Min(PageSize, config.limit.n - requests[i].held)
              /\ requests[i].perPage >= 1
        /\ Len(allPosts) <= config.limit.n
        /\ Len(posts) <= config.limit.n
        /\ Len(documents) <= config.limit.n
        /\ converted <= config.limit.n

C7_Witness ==
    /\ pc = "done"
    /\ ~config.limit.inf
    /\ ~source.honest
    /\ source.n > config.limit.n
    /\ config.limit.n > 1
    /\ Len(documents) = config.limit.n

(***************************************************************************)
(* C8.  A failure of init() aborts the whole run with a diagnostic: when   *)
(* the creation of the output or the images directory fails, or a          *)
(* configured plugin name has no plugin among those loaded, the process    *)
(* has exited with status 1 having sent no request to the site and         *)
(* written no document and no image; and a run in which some configured    *)
(* name has no loadable plugin never gets past init().                     *)
(***************************************************************************)
InitFailureReported ==
    \E i \in 1..Len(stderr) :
        \/ stderr[i].text = "Plugins not found"
        \/ stderr[i].text = "Export failed" /\ stderr[i].message \in {"mkdir baseDir", "mkdir imagesDir"}

SomeNameNotLoadable ==
    \E i \in 1..Len(Iterate(config.plugins)) :
        \A f \in Range(LoadPlugins(cwdFiles)) : f.name # Iterate(config.plugins)[i]

C8_InitFailureAbortsTheRun ==
    /\ InitFailureReported =>
            /\ pc = "exited"
            /\ exitCode = "1"
            /\ requests = <<>>
            /\ posts = <<>>
            /\ documents = <<>>
            /\ imagesWritten = 0
    /\ SomeNameNotLoadable => (InInit \/ (pc = "exited" /\ requests = <<>>))
    /\ (pc = "exited" /\ requests = <<>>) => stderr # <<>>

C8_Witness ==
    /\ pc = "exited"
    /\ "Plugins not found" \in Texts(stderr)
    /\ loadedPlugins # <<>>
    /\ requests = <<>>

(***************************************************************************)
(* C9.  Claimed: a discovered plugin that lacks one of the three           *)
(* operations, or whose name is that of another discovered plugin, is      *)
(* kept out of the registry and a diagnostic is emitted for it.            *)
(***************************************************************************)
LacksAnOperation(f) == f.kind = "class" /\ ~(AllOps \subseteq f.ops)

SharesItsName(all, i) == all[i].kind = "class" /\ \E j \in 1..Len(all) : j # i /\ all[j].name = all[i].name

DiagnosticFor(f) ==
    \E i \in 1..Len(stderr) : stderr[i].text = "Plugins not found" /\ f.name \in Range(stderr[i].message)

C9_OffContractIsExcludedWithDiagnostic ==
    (~InInit /\ ~LoadPluginsThrows(cwdFiles)) =>
        \A i \in 1..Len(Discovered(cwdFiles)) :
            LET f == Discovered(cwdFiles)[i]
            IN  (LacksAnOperation(f) \/ SharesItsName(Discovered(cwdFiles), i)) =>
                    /\ f \notin Range(LoadPlugins(cwdFiles))
                    /\ f \notin Range(loadedPlugins)
                    /\ DiagnosticFor(f)

(***************************************************************************)
(* C9, amended.  A discovered plugin that lacks one of the three           *)
(* operations is kept out of the registry and is never loaded, without a   *)
(* diagnostic of its own: the run reaches the fetch with nothing           *)
(* reported unless its name was configured.  A plugin that has the three   *)
(* operations is accepted even when it shares its name with another, and   *)
(* a configured name is resolved to the first plugin discovered with it.   *)
(***************************************************************************)
C9_OffShapeIsExcludedSilently ==
    (~InInit /\ ~LoadPluginsThrows(cwdFiles)) =>
        /\ \A i \in 1..Len(Discovered(cwdFiles)) :
              LET f == Discovered(cwdFiles)[i]
              IN  /\ LacksAnOperation(f) =>
                        (f \notin Range(LoadPlugins(cwdFiles)) /\ f \notin Range(loadedPlugins))
                  /\ (f.kind = "class" /\ AllOps \subseteq f.ops) => f \in Range(LoadPlugins(cwdFiles))
        /\ \A k \in 1..Len(loadedPlugins) :
              \E i \in 1..Len(Discovered(cwdFiles)) :
                  /\ Discovered(cwdFiles)[i] = loadedPlugins[k]
                  /\ AllOps \subseteq loadedPlugins[k].ops
                  /\ \A j \in 1..(i - 1) :
                        Discovered(cwdFiles)[j].name = loadedPlugins[k].name
                            => LacksAnOperation(Discovered(cwdFiles)[j]) \/ Discovered(cwdFiles)[j].kind # "class"
        /\ pc = "fetch" /\ requests = <<>> => stderr = <<>>

C9_Witness ==
    /\ pc = "fetch"
    /\ stderr = <<>>
    /\ NoHtmlPlugin \in Range(cwdFiles)
    /\ loadedPlugins # <<>>

C9_WitnessSharedName ==
    /\ pc = "fetch"
    /\ Len(cwdFiles) = 2
    /\ cwdFiles[1].name = cwdFiles[2].name
    /\ loadedPlugins = <<cwdFiles[1], cwdFiles[1]>>

(***************************************************************************)
(* C10.  Claimed: without --preserve-tags the converter keeps exactly      *)
(* iframe and script verbatim, and with the option exactly the names       *)
(* given: an element for which turndown has no rule of its own is emitted  *)
(* unchanged if and only if its tag is in that set.                        *)
(***************************************************************************)
TagsToKeep ==
    IF argv.preserveTags.given THEN {t[1] : t \in Range(ParseList(argv.preserveTags.raw))}
    ELSE {"iframe", "script"}

C10_KeepsTheDocumentedTags ==
    (pc = "mdHooks" /\ hookIdx = 1) =>
        \A i \in 1..Len(dom) :
            dom[i].tag \notin {"img", "a", "p"} =>
                (markdown[i].kind = "html" <=> dom[i].tag \in TagsToKeep)

\* createFrontMatter has called extractFeaturedImage for the current post
FeaturedExtracted == pc \in {"fmHooks", "write"} \/ (pc = "loop" /\ idx > 0 /\ Len(documents) = idx)

FeaturedCalls == SelectSeq(downloads, LAMBDA c : c.for = "featured")

(***************************************************************************)
(* C11.  extractFeaturedImage gives the mapping's local path, with no      *)
(* download, when the featured media's source URL is a key of the mapping  *)
(* built for the body; otherwise it makes exactly one download, of that    *)
(* URL, and gives its result; and for a post without embedded featured     *)
(* media it gives null with no download.                                   *)
(***************************************************************************)
C11_FeaturedImageIsDeduplicated ==
    FeaturedExtracted =>
        LET sourceUrl == CurrentPost.media
        IN  /\ sourceUrl = NoUrl => (featured = <<>> /\ FeaturedCalls = <<>>)
            /\ (sourceUrl # NoUrl /\ sourceUrl \in DOMAIN imageUrlMap) =>
                    (featured = <<imageUrlMap[sourceUrl]>> /\ FeaturedCalls = <<>>)
            /\ (sourceUrl # NoUrl /\ sourceUrl \notin DOMAIN imageUrlMap) =>
                    /\ Len(FeaturedCalls) = 1
                    /\ FeaturedCalls[1].url = sourceUrl
                    /\ featured = FeaturedCalls[1].result

C11_Witness ==
    /\ pc = "fmHooks"
    /\ CurrentPost.media \in DOMAIN imageUrlMap
    /\ featured = <<imageUrlMap[CurrentPost.media]>>
    /\ FeaturedCalls = <<>>
    /\ \E c \in Range(BodyCalls) : c.url = CurrentPost.media /\ c.result = <<>>

(***************************************************************************)
(* C12.  Claimed: the front matter of a written document has the key       *)
(* featured_image only if a featured image resolved for the post, and a    *)
(* post without featured media has no such key, whichever of Yoast and     *)
(* ExampleFixPaths are enabled.                                            *)
(***************************************************************************)
C12_FeaturedImageKeyOnlyIfResolved ==
    (pc = "loop" /\ idx > 0 /\ Len(documents) = idx) =>
        (HasKey(lastDoc.frontMatter, "featured_image") => featured # <<>>)

\* the marker class names the command line configures
ConfiguredMarkers ==
    IF argv.codeClasses.given THEN Range(ParseList(argv.codeClasses.raw)) ELSE {}

\* name stands somewhere in the class attribute
HasSubstring(cls, name) == \E a, b \in 0..Len(cls) : a <= b /\ SubSeq(cls, a + 1, b) = name

(***************************************************************************)
(* C13.  The code-block rule converts an element only if its class         *)
(* attribute contains one of the configured marker class names as a        *)
(* substring: an element with no such class is never emitted as a code     *)
(* block whatever its text, and with no marker configured (--code-classes  *)
(* not given, or given with no name in it) no element is.                  *)
(***************************************************************************)
C13_CodeRuleNeedsAMarkerClass ==
    pc = "mdHooks" =>
        \A i \in 1..Len(markdown) :
            markdown[i].kind = "code" =>
                \E name \in ConfiguredMarkers : name # <<>> /\ HasSubstring(dom[i].cls, name)

C13_Witness ==
    /\ pc = "mdHooks"
    /\ markdown[1].kind = "code"
    /\ Len(dom[1].cls) > 1
    /\ Cardinality(ConfiguredMarkers) = 2

\* the values of the lookup table
MappedTags == {languageMap[l] : l \in DetectorLabels}

(***************************************************************************)
(* C14.  The language of an emitted code block is a value of the lookup    *)
(* table, json, or empty: the mapped tag when lang-detector's label has a  *)
(* non-empty mapping; otherwise json exactly when the normalized text      *)
(* parses as JSON; otherwise empty.  The block carries the normalized      *)
(* text, and it is what the rule gives for that element each time.         *)
(***************************************************************************)
C14_LanguageTag ==
    pc = "mdHooks" =>
        \A i \in 1..Len(markdown) :
            markdown[i].kind = "code" =>
                LET code == NormalizeCode(dom[i].text)
                    mapped == languageMap[dom[i].label]
                    lang == markdown[i].lang
                IN  /\ lang \in MappedTags \cup {<<"json">>, <<>>}
                    /\ mapped # <<>> => lang = mapped
                    /\ mapped = <<>> => (lang = <<"json">> <=> isJson(code))
                    /\ (mapped = <<>> /\ ~isJson(code)) => lang = <<>>
                    /\ markdown[i].text = code
                    /\ markdown[i] = TurndownNode(dom[i], config.preserveTags, config.codeClasses)

C14_Witness ==
    /\ pc = "mdHooks"
    /\ markdown[1].kind = "code"
    /\ markdown[1].lang = <<"json">>
    /\ dom[1].label = "Unknown"
    /\ dom[1].text # markdown[1].text
    /\ "\r" \in Range(dom[1].text)

(***************************************************************************)
(* C15.  Claimed: within the asset resolution of one post a URL is         *)
(* downloaded at most once: no two calls of downloadImage for the body     *)
(* are for the same URL, however many <img> elements carry it.             *)
(***************************************************************************)
C15_OneDownloadPerUrl ==
    \A k, l \in 1..Len(BodyCalls) : k # l => BodyCalls[k].url # BodyCalls[l].url

(***************************************************************************)
(* C16.  Claimed: a class in the working directory with a static name,     *)
(* processFrontMatter and processPostContent is accepted by loadPlugins,   *)
(* is listed among the available plugins, and can be enabled by name       *)
(* without the run ending with "Plugins not found".                        *)
(***************************************************************************)
C16_TemplatePluginIsAccepted ==
    (~InInit /\ ~LoadPluginsThrows(cwdFiles) /\ TemplatePlugin \in Range(cwdFiles)) =>
        /\ TemplatePlugin \in Range(LoadPlugins(cwdFiles))
        /\ TemplatePlugin.name \in Range(Iterate(config.plugins)) =>
                "Plugins not found" \notin Texts(stderr)

\* the current post's document has been written
PostExported == pc = "loop" /\ idx > 0 /\ Len(documents) = idx

Hooks == {"processHtml", "processMarkdown", "processFrontMatter"}

\* how often the hook of the plugin with that mark was invoked for the current post
Invocations(hook, mark) == Cardinality({i \in 1..Len(trace) : trace[i] = Ev(hook, mark)})

Occurrences(seq, x) == Cardinality({i \in 1..Len(seq) : seq[i] = x})

(***************************************************************************)
(* C17.  Claimed: for every exported post and every enabled plugin each    *)
(* of the plugin's three hooks is invoked exactly once for that post,      *)
(* for any configured list of plugin names.                                *)
(***************************************************************************)
C17_EachHookOncePerPlugin ==
    PostExported =>
        \A q \in Range(loadedPlugins) : \A h \in Hooks : Invocations(h, q.mark) = 1

(***************************************************************************)
(* C17, amended.  For every exported post each of the three hooks is       *)
(* invoked once for every entry of the configured list: a plugin whose     *)
(* name is configured k times is loaded k times and each of its hooks is   *)
(* invoked k times for the post, exactly once when the configured names    *)
(* are distinct.  The list of loaded plugins is built by init() and is     *)
(* not modified afterwards.                                                *)
(***************************************************************************)
C17_EachHookOncePerConfiguredEntry ==
    /\ [](PostExported =>
            /\ \A h \in Hooks : Len(Steps(h)) = Len(Iterate(config.plugins))
            /\ \A q \in Range(loadedPlugins) : \A h \in Hooks :
                  /\ Invocations(h, q.mark) = Occurrences(loadedPlugins, q)
                  /\ Invocations(h, q.mark) = Occurrences(Iterate(config.plugins), q.name))
    /\ [][~InInit => loadedPlugins' = loadedPlugins]_vars

C17_Witness ==
    /\ PostExported
    /\ Len(loadedPlugins) = 2
    /\ loadedPlugins[1] = loadedPlugins[2]
    /\ \A h \in Hooks : Invocations(h, loadedPlugins[1].mark) = 2

(***************************************************************************)
(* C18.  Claimed: against a site of N posts that answers (page, per_page)  *)
(* with that slice of its posts, and 400 or an empty list past the end,    *)
(* fetchPosts with limit L returns exactly the first min(L, N) posts in    *)
(* the site's order, none twice and none left out.                         *)
(***************************************************************************)
C18_ReturnsTheFirstPosts ==
    (FetchReturned /\ source.honest) =>
        posts = Interval(1, IF config.limit.inf THEN source.n ELSE Min(config.limit.n, source.n))

(***************************************************************************)
(* C19.  Claimed: within one post the asset mapping is injective: two      *)
(* different URLs that were both downloaded are mapped to two different    *)
(* local paths.                                                            *)
(***************************************************************************)
C19_MappingIsInjective ==
    \A u, v \in DOMAIN imageUrlMap : u # v => imageUrlMap[u] # imageUrlMap[v]

\* a page request ended fatally: 404, another status that is neither 2xx nor 400, or no answer
FatalStatus(status) == status \notin {200, 400}

(***************************************************************************)
(* C20.  Nothing is written before fetchPosts has returned the whole       *)
(* list: while init() or the fetch is under way no document and no image   *)
(* has been written, and when a page request ends fatally the process      *)
(* has exited with status 1 with no document written, no image downloaded  *)
(* and no post started, whatever the earlier pages gave.  Once the         *)
(* conversion has started the posts are taken one at a time in the order   *)
(* of the list: while post i is in work exactly the documents of the       *)
(* posts before it are written.                                            *)
(***************************************************************************)
C20_FetchCompletesBeforeAnyWrite ==
    /\ (InInit \/ pc = "fetch") =>
            (documents = <<>> /\ downloads = <<>> /\ imagesWritten = 0 /\ idx = 0)
    /\ (requests # <<>> /\ FatalStatus(Last(requests).status)) =>
            /\ pc = "exited"
            /\ exitCode = "1"
            /\ stderr # <<>>
            /\ documents = <<>>
            /\ downloads = <<>>
            /\ imagesWritten = 0
            /\ idx = 0
    /\ InPost => documents = SubSeq(posts, 1, idx - 1)
    /\ pc \in {"loop", "done"} => documents = SubSeq(posts, 1, idx)
    /\ pc = "done" => documents = posts

C20_Witness ==
    /\ pc = "exited"
    /\ Len(requests) = 2
    /\ requests[1].status = 200
    /\ requests[2].status = 500
    /\ requests[2].held = PageSize
    /\ allPosts # <<>>
    /\ documents = <<>>
====
